---- MODULE Spec2Model ----
(***************************************************************************)
(* Walk-forward metrics engine (MetricsCalculator), the game ledger it     *)
(* reads, the team_game_stats store it writes, and the prediction pass     *)
(* that consumes the stored ratings.                                       *)
(*                                                                         *)
(* Numbers: Python floats are modelled in fixed point.  Averages and       *)
(* win_pct are thousandths (integer division); ELO ratings are whole       *)
(* points, the expected score is in units of 1/SCALE.  A nullable column   *)
(* is a sequence of length 0 (NULL / None) or 1.                           *)
(*                                                                         *)
(* SQL: a query that ends in ORDER BY game_date ... .first() or .all()     *)
(* leaves the order of rows with equal game_date unspecified; every such   *)
(* query is a nondeterministic choice among the tied rows.                 *)
(***************************************************************************)
EXTENDS Integers, Sequences, FiniteSets, TLC

\* ---------------------------------------------------------------- bounds
NumTeams == 3
MaxDate == 2
MaxGames == 3
MaxRuns == 2
MaxSimGames == 6     \* length of the longest remaining_games list
MaxSims == 3         \* largest num_simulations
MaxRatingGap == 8    \* ratings up to 25 * MaxRatingGap + 1 points from ELO_INITIAL

\* ------------------------------------------------------ program constants
ELO_K == 32
ELO_INITIAL == 1500
SCALE == 10000
MILLI == 1000

Teams == 1..NumTeams
Dates == 1..MaxDate
NULL == <<>>
Some(v) == <<v>>
IsNull(x) == x = <<>>
Val(x) == x[1]

\* Scores the data source reports for a finished game, and a score-less row.
ScorePairs == {<<100, 90>>, <<90, 100>>}

VARIABLES
    ledger,     \* games table: game id -> Game row
    store,      \* team_game_stats table: set of rows
    nextId,     \* next autoincrement id of team_game_stats
    pc,         \* "idle" | "running" | "done" | "failed" (engine run)
    queue,      \* games still to process in the current run (ids, in order)
    runs,       \* number of runs started
    used,       \* ratings the engine read while processing the last game
    prevStore,  \* <<store>> before this run when it repeats a completed run
                \* on the unchanged ledger, else <<>>
    preds,      \* game_predictions table: game id -> prediction
    predStore,  \* team_game_stats as generate_predictions last read it
    ledgerB,    \* a second database: its games table,
    storeB,     \* its team_game_stats table,
    nextIdB,    \* its autoincrement id,
    pcB,        \* the state of the engine run on it,
    queueB,     \* and the games that run still has to process
    lgbProbOf,  \* generate_predictions' last run: game id -> <<>> when the
                \* game's index was beyond lightgbm_probs, else <<the entry>>
    lgbRowOf,   \* and game id -> <<>>, else <<the game whose features are
                \* the row of X that entry was predicted from>>
    config,     \* Config.LIGHTGBM_WEIGHT / ELO_WEIGHT of that process
    projections,            \* calculate_season_projections' result, per team
    simArgs,                \* run_monte_carlo_simulation: its arguments,
    simPc,                  \* "idle" | "loop" | "returned" | "raised"
    sim_num,                \* simulations completed
    game_idx,               \* games of remaining_games walked in this one
    sim_wins,
    sim_losses,
    recent_results,
    simulated_final_wins,
    lastDraw,               \* <<>> or <<the last game step of the loop>>
    simResult,              \* <<>> or <<SimulationResult>>
    rngPos,                 \* numbers drawn so far from the generator of module
                            \* random, which the whole process shares
    ownPos,                 \* rngPos at the call plus the call's own draws
    prevResult,             \* <<>> or <<what the call before, on the same
                            \* arguments, returned>>
    run_outcomes,           \* outcomes (1 won, 0 lost) of the games replayed
                            \* so far in the current simulation, in play order
    eloArgs,                \* get_elo_win_probability: two ratings,
    eloProb                 \* <<>> or <<its value both ways round>>

predVars == <<preds, predStore, lgbProbOf, lgbRowOf, config>>
projVars == <<projections>>
simVars == <<simArgs, simPc, sim_num, game_idx, sim_wins, sim_losses, recent_results,
            simulated_final_wins, lastDraw, simResult, rngPos, ownPos, prevResult,
            run_outcomes>>
eloVars == <<eloArgs, eloProb>>
reportVars == <<projVars, simVars, eloVars>>
secondVars == <<ledgerB, storeB, nextIdB, pcB, queueB>>
vars == <<ledger, store, nextId, pc, queue, runs, used, prevStore, predVars,
         secondVars, reportVars>>

\* ------------------------------------------------------------ Game rows
Game(d, h, a, hs, as, st) ==
    [game_date |-> d, home_team_id |-> h, away_team_id |-> a,
     home_team_score |-> hs, away_team_score |-> as, status |-> st]

GameIds(L) == DOMAIN L
Plays(L, g, t) == L[g].home_team_id = t \/ L[g].away_team_id = t
IsFinal(L, g) == L[g].status = "Final"

\* ORDER BY game_date, id
OrderLess(L, g1, g2) ==
    \/ L[g1].game_date < L[g2].game_date
    \/ L[g1].game_date = L[g2].game_date /\ g1 < g2

RECURSIVE SortByDateId(_, _)
SortByDateId(L, S) ==
    IF S = {} THEN <<>>
    ELSE LET m == CHOOSE g \in S : \A o \in S \ {g} : OrderLess(L, g, o)
         IN <<m>> \o SortByDateId(L, S \ {m})

\* calculate_all_metrics: the games query
FinalGamesInOrder(L) == SortByDateId(L, {g \in GameIds(L) : IsFinal(L, g)})

\* ------------------------------------------------------------ arithmetic
RECURSIVE SumSeq(_)
SumSeq(s) == IF s = <<>> THEN 0 ELSE Head(s) + SumSeq(Tail(s))

\* prev_games[-w:]
LastN(s, w) == IF Len(s) <= w THEN s ELSE SubSeq(s, Len(s) - w + 1, Len(s))

\* a / b rounded to the nearest integer, halves away from zero (b > 0)
RoundDiv(a, b) == IF a >= 0 THEN (2 * a + b) \div (2 * b)
                  ELSE 0 - ((2 * (0 - a) + b) \div (2 * b))

\* x * y / SCALE without leaving 32 bits (x, y >= 0, both in units of 1/SCALE)
MulScaled(x, y) == (x \div SCALE) * y + RoundDiv((x % SCALE) * y, SCALE)

\* 10 ** (2^k / 400) for k = 0..8, in units of 1/SCALE
Pow10Table == <<10058, 10116, 10233, 10471, 10965, 12023, 14454, 20893, 43652>>

RECURSIVE Pow10Bits(_, _)
Pow10Bits(n, k) ==
    IF n = 0 \/ k > Len(Pow10Table) THEN SCALE
    ELSE IF n % 2 = 1 THEN MulScaled(Pow10Bits(n \div 2, k + 1), Pow10Table[k])
         ELSE Pow10Bits(n \div 2, k + 1)

\* 10 ** (d / 400.0) in units of 1/SCALE, |d| < 512
Pow10(d) == IF d >= 0 THEN Pow10Bits(d, 1)
            ELSE RoundDiv(SCALE * SCALE, Pow10Bits(0 - d, 1))

\* 1.0 / (1.0 + 10 ** ((opponent_elo - team_elo) / 400.0)), units of 1/SCALE
ExpectedWinProb(team_elo, opponent_elo) ==
    RoundDiv(SCALE * SCALE, SCALE + Pow10(opponent_elo - team_elo))

\* MetricsCalculator._calculate_elo
CalculateElo(team_elo, opponent_elo, won) ==
    LET expected_win_prob == ExpectedWinProb(team_elo, opponent_elo)
        elo_change == RoundDiv(ELO_K * (won * SCALE - expected_win_prob), SCALE)
    IN team_elo + elo_change

\* MetricsCalculator._rolling_average (thousandths)
RollingAverage(values) ==
    IF values = <<>> THEN NULL
    ELSE Some((SumSeq(values) * MILLI) \div Len(values))

\* ppf_w - ppa_w if both are not None else None
NullableDiff(x, y) == IF ~IsNull(x) /\ ~IsNull(y) THEN Some(Val(x) - Val(y)) ELSE NULL

\* ------------------------------------------------------- engine queries
\* filter of _get_prev_games / _calculate_rest_days / _is_back_to_back
EarlierFinalGames(L, team_id, game_date) ==
    {g \in GameIds(L) : /\ Plays(L, g, team_id)
                        /\ L[g].game_date < game_date
                        /\ IsFinal(L, g)}

\* every order of S that ORDER BY game_date allows
RECURSIVE DateOrders(_, _)
DateOrders(L, S) ==
    IF S = {} THEN {<<>>}
    ELSE LET firsts == {g \in S : \A o \in S : L[g].game_date <= L[o].game_date}
         IN UNION {{<<g>> \o rest : rest \in DateOrders(L, S \ {g})} : g \in firsts}

ScoresKnown(L, g) == ~IsNull(L[g].home_team_score) /\ ~IsNull(L[g].away_team_score)

\* one element of the list _get_prev_games returns
PrevGameDict(L, team_id, g) ==
    LET is_home == L[g].home_team_id = team_id
        pf == IF is_home THEN Val(L[g].home_team_score) ELSE Val(L[g].away_team_score)
        pa == IF is_home THEN Val(L[g].away_team_score) ELSE Val(L[g].home_team_score)
    IN [game_id |-> g, pf |-> pf, pa |-> pa, won |-> IF pf > pa THEN 1 ELSE 0]

\* MetricsCalculator._get_prev_games: the lists the query may return
GetPrevGames(L, team_id, game_date) ==
    {[i \in 1..Len(ord) |-> PrevGameDict(L, team_id, ord[i])] :
        ord \in DateOrders(L, EarlierFinalGames(L, team_id, game_date))}

\* comparing a missing score raises TypeError
PrevGamesRaise(L, team_id, game_date) ==
    \E g \in EarlierFinalGames(L, team_id, game_date) : ~ScoresKnown(L, g)

MaxDateOf(L, S) == CHOOSE d \in {L[g].game_date : g \in S} :
                       \A g \in S : L[g].game_date <= d

\* MetricsCalculator._calculate_rest_days
CalculateRestDays(L, team_id, game_date) ==
    LET prev == EarlierFinalGames(L, team_id, game_date)
    IN IF prev = {} THEN NULL ELSE Some(game_date - MaxDateOf(L, prev))

\* MetricsCalculator._is_back_to_back
IsBackToBack(L, team_id, game_date) ==
    LET prev == EarlierFinalGames(L, team_id, game_date)
    IN IF prev = {} THEN FALSE ELSE game_date - MaxDateOf(L, prev) = 1

\* MetricsCalculator._get_latest_elo: the ratings the query may return
GetLatestElo(L, St, team_id, game_date) ==
    LET rows == {r \in St : /\ r.team_id = team_id
                            /\ r.game_id \in GameIds(L)
                            /\ L[r.game_id].game_date < game_date}
        latest == {r \in rows : \A o \in rows :
                       L[o.game_id].game_date <= L[r.game_id].game_date}
    IN IF rows = {} THEN {ELO_INITIAL} ELSE {r.elo_rating : r \in latest}

\* ------------------------------------------------------------ snapshots
\* MetricsCalculator._calculate_team_stats; opponent_elo and team_elo are the
\* values its two _get_latest_elo calls returned
CalculateTeamStats(game_id, team_id, is_home, prev_games, game_won, days_rest, back_to_back, opponent_elo, team_elo) ==
    LET games_played == Len(prev_games)
        pfs == [i \in 1..Len(prev_games) |-> prev_games[i].pf]
        pas == [i \in 1..Len(prev_games) |-> prev_games[i].pa]
        wins == SumSeq([i \in 1..Len(prev_games) |-> prev_games[i].won])
        ppf == IF games_played > 0 THEN (SumSeq(pfs) * MILLI) \div games_played ELSE 0
        ppa == IF games_played > 0 THEN (SumSeq(pas) * MILLI) \div games_played ELSE 0
        ppf_5 == RollingAverage(LastN(pfs, 5))
        ppa_5 == RollingAverage(LastN(pas, 5))
        ppf_10 == RollingAverage(LastN(pfs, 10))
        ppa_10 == RollingAverage(LastN(pas, 10))
        ppf_20 == RollingAverage(LastN(pfs, 20))
        ppa_20 == RollingAverage(LastN(pas, 20))
        ppf_100 == RollingAverage(LastN(pfs, 100))
        ppa_100 == RollingAverage(LastN(pas, 100))
    IN [game_id |-> game_id,
        team_id |-> team_id,
        is_home |-> is_home,
        games_played |-> games_played,
        wins |-> wins,
        losses |-> games_played - wins,
        win_pct |-> IF games_played > 0 THEN (wins * MILLI) \div games_played ELSE 0,
        points_for |-> ppf,
        points_against |-> ppa,
        point_differential |-> ppf - ppa,
        ppf_5game |-> ppf_5, ppa_5game |-> ppa_5, diff_5game |-> NullableDiff(ppf_5, ppa_5),
        ppf_10game |-> ppf_10, ppa_10game |-> ppa_10, diff_10game |-> NullableDiff(ppf_10, ppa_10),
        ppf_20game |-> ppf_20, ppa_20game |-> ppa_20, diff_20game |-> NullableDiff(ppf_20, ppa_20),
        ppf_100game |-> ppf_100, ppa_100game |-> ppa_100,
        diff_100game |-> NullableDiff(ppf_100, ppa_100),
        elo_rating |-> CalculateElo(team_elo, opponent_elo, game_won),
        days_rest |-> days_rest,
        back_to_back |-> back_to_back,
        game_won |-> game_won]

\* a team_game_stats row: the snapshot plus its autoincrement primary key
Row(id, stats) == [f \in {"id"} \cup DOMAIN stats |-> IF f = "id" THEN id ELSE stats[f]]
StatsOf(r) == [f \in DOMAIN r \ {"id"} |-> r[f]]

\* query(TeamGameStats).filter_by(game_id=..., team_id=...)
RowsFor(St, game_id, team_id) == {r \in St : r.game_id = game_id /\ r.team_id = team_id}

\* Upsert without the existence check: always session.add
UpsertAlwaysAdd(St, existing, id, stats) == St \cup {Row(id, stats)}

\* "Create or update records" for one team: write into the row `existing`
\* (a one-element sequence) or add a row with primary key `id`
Upsert(St, existing, id, stats) ==
    IF existing # <<>> THEN (St \ {existing[1]}) \cup {Row(existing[1].id, stats)}
    ELSE St \cup {Row(id, stats)}

\* what .first() may return
FirstOf(rows) == IF rows = {} THEN {<<>>} ELSE {<<r>> : r \in rows}

NoPredictions == [g \in {} |-> 0]
NoGames == [g \in {} |-> 0]
NoUse == [game |-> 0, home_pre |-> 0, home_opp |-> 0, away_pre |-> 0, away_opp |-> 0]

\* ----------------------------------------------------------------- Init
\* home/away pairings the schedule contains
Matchups == {<<h, a>> \in Teams \X Teams : h < a}

FinishedGames == {Game(d, m[1], m[2], Some(sc[1]), Some(sc[2]), "Final") :
                     d \in Dates, m \in Matchups, sc \in ScorePairs}
\* a game not played yet, and a row marked Final whose scores are missing
OpenGames == {Game(d, m[1], m[2], NULL, NULL, st) :
                 d \in Dates, m \in Matchups, st \in {"scheduled", "Final"}}

\* UniqueConstraint uq_game
UqGame(L) == \A g1, g2 \in DOMAIN L :
    (/\ L[g1].home_team_id = L[g2].home_team_id
     /\ L[g1].away_team_id = L[g2].away_team_id
     /\ L[g1].game_date = L[g2].game_date) => g1 = g2

\* Ledgers the loader can leave behind: the first game is team 1 hosting
\* team 2, and only the game with the largest id may be open.
Ledgers ==
    {L \in [1..MaxGames -> FinishedGames \cup OpenGames] :
        /\ L[1].home_team_id = 1 /\ L[1].away_team_id = 2
        /\ \A g \in 1..(MaxGames - 1) : L[g] \in FinishedGames
        /\ UqGame(L)}

\* generate_predictions has not run: no game enumerated
NoPredRun == [g \in {} |-> <<>>]

\* Config.LIGHTGBM_WEIGHT and Config.ELO_WEIGHT without environment overrides,
\* in thousandths
DefaultConfig == [LIGHTGBM_WEIGHT |-> 700, ELO_WEIGHT |-> 300]

\* the environment's LIGHTGBM_WEIGHT / ELO_WEIGHT settings considered: the
\* default, another pair summing to 1.0, and a pair that does not
WeightConfigs ==
    {DefaultConfig,
     [LIGHTGBM_WEIGHT |-> 600, ELO_WEIGHT |-> 400],
     [LIGHTGBM_WEIGHT |-> 600, ELO_WEIGHT |-> 600]}

\* Config.validate raises ValueError on the blending weights
ConfigValidateRaises(cfg) ==
    LET weights_sum == cfg.LIGHTGBM_WEIGHT + cfg.ELO_WEIGHT
    IN (weights_sum - MILLI > 1) \/ (MILLI - weights_sum > 1)

NoProjections == [t \in {} |-> 0]

NoSimArgs ==
    [current_wins |-> 0, current_losses |-> 0, remaining_games |-> <<>>,
     num_simulations |-> 0, team_id |-> 0]

\* no simulation is in progress and none has returned
SimIdle ==
    /\ simArgs = NoSimArgs
    /\ simPc = "idle"
    /\ sim_num = 0
    /\ game_idx = 0
    /\ sim_wins = 0
    /\ sim_losses = 0
    /\ recent_results = <<>>
    /\ simulated_final_wins = <<>>
    /\ lastDraw = <<>>
    /\ simResult = <<>>
    /\ rngPos = 0
    /\ ownPos = 0
    /\ prevResult = <<>>
    /\ run_outcomes = <<>>

\* the projection script and the probability helper have not been called
ReportIdle ==
    /\ projections = NoProjections
    /\ SimIdle
    /\ eloArgs = <<>>
    /\ eloProb = <<>>

FirstDatabase ==
    /\ store = {}
    /\ nextId = 1
    /\ pc = "idle"
    /\ queue = <<>>
    /\ runs = 0
    /\ used = NoUse
    /\ prevStore = <<>>
    /\ preds = NoPredictions
    /\ predStore = {}
    /\ lgbProbOf = NoPredRun
    /\ lgbRowOf = NoPredRun

Init ==
    /\ ledger \in Ledgers
    /\ ledgerB = NoGames
    /\ storeB = {}
    /\ nextIdB = 1
    /\ pcB = "idle"
    /\ queueB = <<>>
    /\ store = {}
    /\ nextId = 1
    /\ pc = "idle"
    /\ queue = <<>>
    /\ runs = 0
    /\ used = NoUse
    /\ prevStore = <<>>
    /\ preds = NoPredictions
    /\ predStore = {}
    /\ lgbProbOf = NoPredRun
    /\ lgbRowOf = NoPredRun
    /\ config = DefaultConfig
    /\ ReportIdle

\* -------------------------------------------------------------- actions
\* ETL load_games, update branch: the data source reports a scheduled game as
\* played
UpdateGame ==
    /\ pc # "running"
    /\ \E g \in GameIds(ledger), sc \in ScorePairs :
        /\ ledger[g].status = "scheduled"
        /\ ledger' = [ledger EXCEPT ![g].status = "Final",
                                    ![g].home_team_score = Some(sc[1]),
                                    ![g].away_team_score = Some(sc[2])]
    /\ pc' = "idle"
    /\ UNCHANGED <<store, nextId, queue, runs, used, prevStore, predVars, secondVars, reportVars>>

\* calculate_all_metrics up to the loop: the ordered list of Final games
StartRun ==
    /\ pc # "running"
    /\ runs < MaxRuns
    /\ runs' = runs + 1
    /\ queue' = FinalGamesInOrder(ledger)
    /\ pc' = "running"
    /\ used' = NoUse
    /\ prevStore' = IF pc = "done" THEN <<store>> ELSE <<>>
    /\ UNCHANGED <<ledger, store, nextId, predVars, secondVars, reportVars>>

\* home_team_score > away_team_score on a missing score (or the same
\* comparison inside _get_prev_games) raises; the run ends with the error
GameRaises(L, g) ==
    \/ ~ScoresKnown(L, g)
    \/ PrevGamesRaise(L, L[g].home_team_id, L[g].game_date)
    \/ PrevGamesRaise(L, L[g].away_team_id, L[g].game_date)

\* home_won with the comparison the other way round
HomeWonReversed(game) == Val(game.home_team_score) < Val(game.away_team_score)

\* home_won = game.home_team_score > game.away_team_score
HomeWon(game) == Val(game.home_team_score) > Val(game.away_team_score)

\* _calculate_game_metrics(game g): every store it may commit, with the
\* ratings its four _get_latest_elo calls returned
GameMetricsOutcomes(L, St, nid, g) ==
    LET game == L[g]
        home == game.home_team_id
        away == game.away_team_id
        home_won == HomeWon(game)
        home_rest == CalculateRestDays(L, home, game.game_date)
        away_rest == CalculateRestDays(L, away, game.game_date)
        home_b2b == IsBackToBack(L, home, game.game_date)
        away_b2b == IsBackToBack(L, away, game.game_date)
        Outcome(prev_games_home, prev_games_away, home_opp, home_pre,
                away_opp, away_pre, existing_home, existing_away) ==
            LET home_stats == CalculateTeamStats(g, home, 1, prev_games_home,
                                  IF home_won THEN 1 ELSE 0, home_rest,
                                  IF home_b2b THEN 1 ELSE 0, home_opp, home_pre)
                away_stats == CalculateTeamStats(g, away, 0, prev_games_away,
                                  IF home_won THEN 0 ELSE 1, away_rest,
                                  IF away_b2b THEN 1 ELSE 0, away_opp, away_pre)
                newHome == IF existing_home = <<>> THEN 1 ELSE 0
                newAway == IF existing_away = <<>> THEN 1 ELSE 0
            IN [store |-> Upsert(Upsert(St, existing_home, nid, home_stats),
                                 existing_away, nid + newHome, away_stats),
                nextId |-> nid + newHome + newAway,
                used |-> [game |-> g, home_pre |-> home_pre, home_opp |-> home_opp,
                          away_pre |-> away_pre, away_opp |-> away_opp]]
    IN {Outcome(ph, pa, ho, hp, ao, ap, eh, ea) :
            ph \in GetPrevGames(L, home, game.game_date),
            pa \in GetPrevGames(L, away, game.game_date),
            ho \in GetLatestElo(L, St, away, game.game_date),
            hp \in GetLatestElo(L, St, home, game.game_date),
            ao \in GetLatestElo(L, St, home, game.game_date),
            ap \in GetLatestElo(L, St, away, game.game_date),
            eh \in FirstOf(RowsFor(St, g, home)),
            ea \in FirstOf(RowsFor(St, g, away))}

\* one iteration of the loop of calculate_all_metrics
ProcessGame ==
    /\ pc = "running"
    /\ queue # <<>>
    /\ ~GameRaises(ledger, Head(queue))
    /\ \E o \in GameMetricsOutcomes(ledger, store, nextId, Head(queue)) :
        /\ store' = o.store
        /\ nextId' = o.nextId
        /\ used' = o.used
    /\ queue' = Tail(queue)
    /\ UNCHANGED <<ledger, pc, runs, prevStore, predVars, secondVars, reportVars>>

\* the exception leaves calculate_all_metrics; games committed so far stay
ProcessGameFails ==
    /\ pc = "running"
    /\ queue # <<>>
    /\ GameRaises(ledger, Head(queue))
    /\ pc' = "failed"
    /\ queue' = <<>>
    /\ UNCHANGED <<ledger, store, nextId, runs, used, prevStore, predVars, secondVars, reportVars>>

\* the loop of calculate_all_metrics is exhausted
FinishRun ==
    /\ pc = "running"
    /\ queue = <<>>
    /\ pc' = "done"
    /\ UNCHANGED <<ledger, store, nextId, queue, runs, used, prevStore, predVars, secondVars, reportVars>>

Next ==
    \/ UpdateGame
    \/ StartRun
    \/ ProcessGame
    \/ ProcessGameFails
    \/ FinishRun

Spec == Init /\ [][Next]_vars

\* ---------------------------------------------------------- predictions
\* get_pre_game_elo with Game.id <= game.id: the game's own row qualifies
GetPreGameEloInclusive(L, St, team_id, g) ==
    LET rows == {r \in St : /\ r.team_id = team_id
                            /\ r.game_id \in GameIds(L)
                            /\ \/ L[r.game_id].game_date < L[g].game_date
                               \/ /\ L[r.game_id].game_date = L[g].game_date
                                  /\ r.game_id <= g}
        first == {r \in rows : \A o \in rows :
                     \/ L[o.game_id].game_date < L[r.game_id].game_date
                     \/ /\ L[o.game_id].game_date = L[r.game_id].game_date
                        /\ o.game_id <= r.game_id}
    IN IF rows = {} THEN {ELO_INITIAL} ELSE {r.elo_rating : r \in first}

\* get_pre_game_elo: the ratings the query may return
GetPreGameElo(L, St, team_id, g) ==
    LET rows == {r \in St : /\ r.team_id = team_id
                            /\ r.game_id \in GameIds(L)
                            /\ \/ L[r.game_id].game_date < L[g].game_date
                               \/ /\ L[r.game_id].game_date = L[g].game_date
                                  /\ r.game_id < g}
        first == {r \in rows : \A o \in rows :
                     \/ L[o.game_id].game_date < L[r.game_id].game_date
                     \/ /\ L[o.game_id].game_date = L[r.game_id].game_date
                        /\ o.game_id <= r.game_id}
    IN IF rows = {} THEN {ELO_INITIAL} ELSE {r.elo_rating : r \in first}

\* get_elo_win_probability with the exponent's sign turned round
GetEloWinProbabilityFlipped(home_elo, away_elo) ==
    RoundDiv(SCALE * SCALE, SCALE + Pow10(home_elo - away_elo))

\* get_elo_win_probability, in units of 1/SCALE
GetEloWinProbability(home_elo, away_elo) ==
    RoundDiv(SCALE * SCALE, SCALE + Pow10(away_elo - home_elo))

\* get_latest_team_stats(session, team_id, before_game_date) finds a row
HasLatestTeamStats(L, St, team_id, before_game_date) ==
    \E r \in St : /\ r.team_id = team_id
                  /\ r.game_id \in GameIds(L)
                  /\ L[r.game_id].game_date < before_game_date

\* generate_predictions: stats are found for both sides of game g
HasBothStats(L, St, g) ==
    /\ \/ \E r \in St : r.game_id = g /\ r.is_home = 1
       \/ HasLatestTeamStats(L, St, L[g].home_team_id, L[g].game_date)
    /\ \/ \E r \in St : r.game_id = g /\ r.is_home = 0
       \/ HasLatestTeamStats(L, St, L[g].away_team_id, L[g].game_date)

\* the classifier's outputs considered, in units of 1/SCALE
LgbProbs == {SCALE}

\* lightgbm_model.predict on the feature row of a game
LightgbmPredict(row) == CHOOSE p \in LgbProbs : TRUE

\* extract_features(game) is not None: the game has both its own snapshots
HasFeatures(L, St, g) ==
    /\ \E r \in St : r.game_id = g /\ r.is_home = 1
    /\ \E r \in St : r.game_id = g /\ r.is_home = 0

\* FeatureEngineer.build_dataset: the games the rows of X are built from, in
\* row order: the Final games that have features, by game_date (ties in any
\* order); every game of the ledger is of a season in the range asked for
FeatureRows(L, St) ==
    DateOrders(L, {g \in GameIds(L) : IsFinal(L, g) /\ HasFeatures(L, St, g)})

\* the neutral probability used beyond the classifier's output
NEUTRAL_PROB == SCALE \div 2

\* the weights written into the blend, in thousandths
BLEND_LGB == 700
BLEND_ELO == 300

\* idx < len(lightgbm_probs) ? lightgbm_probs[idx] : absent, for the game at
\* (1-based) position i of the enumeration
LgbProbAt(lightgbm_probs, i) ==
    IF i <= Len(lightgbm_probs) THEN Some(lightgbm_probs[i]) ELSE NULL

\* lgb_home_prob
LgbHomeProb(x) == IF IsNull(x) THEN NEUTRAL_PROB ELSE Val(x)

\* blended_home_prob with the two weights the other way round
BlendedHomeProbSwapped(lgb_home_prob, elo_home_prob) ==
    RoundDiv(BLEND_ELO * lgb_home_prob + BLEND_LGB * elo_home_prob, MILLI)

\* blended_home_prob = (0.70 * lgb_home_prob) + (0.30 * elo_home_prob)
BlendedHomeProb(lgb_home_prob, elo_home_prob) ==
    RoundDiv(BLEND_LGB * lgb_home_prob + BLEND_ELO * elo_home_prob, MILLI)

\* max(0.0, min(1.0, x))
Clamp01(x) == IF x < 0 THEN 0 ELSE IF x > SCALE THEN SCALE ELSE x

\* the GamePrediction row built from the two component probabilities
\* (point_differential, the regression model's output, is left out)
GamePredictionRow(lgb_home_prob, elo_home_prob) ==
    LET blended_home_prob == BlendedHomeProb(lgb_home_prob, elo_home_prob)
    IN [home_win_prob |-> Clamp01(blended_home_prob),
        away_win_prob |-> Clamp01(SCALE - blended_home_prob),
        lightgbm_home_prob |-> lgb_home_prob,
        elo_home_prob |-> elo_home_prob]

\* the GamePrediction rows generate_predictions may write for game g
PredictionsFor(L, St, g, lgb_home_prob) ==
    {GamePredictionRow(lgb_home_prob,
                       GetEloWinProbability(pre_game_elo_home, pre_game_elo_away)) :
        pre_game_elo_home \in GetPreGameElo(L, St, L[g].home_team_id, g),
        pre_game_elo_away \in GetPreGameElo(L, St, L[g].away_team_id, g)}

\* position of game g in the enumeration
RECURSIVE IndexOf(_, _)
IndexOf(order, g) == IF Head(order) = g THEN 1 ELSE 1 + IndexOf(Tail(order), g)

RECURSIVE PredictionTables(_, _, _, _)
PredictionTables(L, St, Gs, lgbOf) ==
    IF Gs = {} THEN {NoPredictions}
    ELSE LET g == CHOOSE x \in Gs : TRUE
         IN {[x \in DOMAIN f \cup {g} |-> IF x = g THEN p ELSE f[x]] :
                f \in PredictionTables(L, St, Gs \ {g}, lgbOf),
                p \in PredictionsFor(L, St, g, LgbHomeProb(lgbOf[g]))}

\* what the enumeration of all games by game_date (ties in any order) pairs
\* each game with: the row of X at the game's index, if there is one
RowTables(L, St) ==
    {[g \in GameIds(L) |-> LgbProbAt(rows, IndexOf(order, g))] :
        order \in DateOrders(L, GameIds(L)), rows \in FeatureRows(L, St)}

\* lightgbm_probs[idx] for each game, from the row it was predicted from
LgbProbsOfRows(rowOf) ==
    [g \in DOMAIN rowOf |->
        IF IsNull(rowOf[g]) THEN NULL ELSE Some(LightgbmPredict(Val(rowOf[g])))]

\* generate_predictions: clear the table, enumerate all games by game_date and
\* write one prediction per game for which stats are found
GeneratePredictions ==
    /\ pc # "running"
    /\ lgbRowOf' \in RowTables(ledger, store)
    /\ lgbProbOf' = LgbProbsOfRows(lgbRowOf')
    /\ preds' \in PredictionTables(ledger, store,
                     {g \in GameIds(ledger) : HasBothStats(ledger, store, g)},
                     lgbProbOf')
    /\ predStore' = store
    /\ UNCHANGED <<ledger, store, nextId, pc, queue, runs, used, prevStore, config,
                   secondVars, reportVars>>

NextPred ==
    \/ Next
    \/ GeneratePredictions

SpecPred == Init /\ [][NextPred]_vars

\* ------------------------------------------- the pipeline under any weights
\* ledgers whose played games were all won by the home side
BlendLedgers ==
    {L \in Ledgers : \A g \in GameIds(L) :
        ScoresKnown(L, g) => Val(L[g].home_team_score) > Val(L[g].away_team_score)}

\* the processes start with the environment's weights in Config
InitBlend ==
    /\ ledger \in BlendLedgers
    /\ ledgerB = NoGames
    /\ FirstDatabase
    /\ config \in WeightConfigs
    /\ storeB = {}
    /\ nextIdB = 1
    /\ pcB = "idle"
    /\ queueB = <<>>
    /\ ReportIdle

SpecBlend == InitBlend /\ [][NextPred]_vars

\* ------------------------------------------------- two databases, one run each
\* Ledgers of finished games, one game longer than those of Init
LongLedgers ==
    {L \in [1..(MaxGames + 1) -> FinishedGames] :
        /\ L[1].home_team_id = 1 /\ L[1].away_team_id = 2
        /\ UqGame(L)}

LastInOrder(L) == CHOOSE g \in GameIds(L) : \A o \in GameIds(L) \ {g} : OrderLess(L, o, g)

\* ledger L with game g changed: other scores, not played yet, or not loaded
Variants(L, g) ==
    {[L EXCEPT ![g].home_team_score = L[g].away_team_score,
               ![g].away_team_score = L[g].home_team_score],
     [L EXCEPT ![g].home_team_score = NULL, ![g].away_team_score = NULL,
               ![g].status = "scheduled"],
     [x \in DOMAIN L \ {g} |-> L[x]]}

InitPair ==
    /\ ledger \in LongLedgers
    /\ ledgerB = NoGames
    /\ FirstDatabase
    /\ config = DefaultConfig
    /\ ReportIdle
    /\ storeB = {}
    /\ nextIdB = 1
    /\ pcB = "idle"
    /\ queueB = <<>>

FirstRunDone == pc = "done" /\ runs = 1

\* the second database is loaded with the first ledger changed in its last game and
\* calculate_all_metrics starts on it
StartRunB ==
    /\ FirstRunDone
    /\ pcB = "idle"
    /\ ledgerB' \in Variants(ledger, LastInOrder(ledger))
    /\ queueB' = FinalGamesInOrder(ledgerB')
    /\ pcB' = "running"
    /\ UNCHANGED <<ledger, store, nextId, pc, queue, runs, used, prevStore, predVars,
                   storeB, nextIdB, reportVars>>

ProcessGameB ==
    /\ FirstRunDone
    /\ pcB = "running"
    /\ queueB # <<>>
    /\ ~GameRaises(ledgerB, Head(queueB))
    /\ \E o \in GameMetricsOutcomes(ledgerB, storeB, nextIdB, Head(queueB)) :
        /\ storeB' = o.store
        /\ nextIdB' = o.nextId
    /\ queueB' = Tail(queueB)
    /\ UNCHANGED <<ledger, store, nextId, pc, queue, runs, used, prevStore, predVars,
                   ledgerB, pcB, reportVars>>

FinishRunB ==
    /\ FirstRunDone
    /\ pcB = "running"
    /\ queueB = <<>>
    /\ pcB' = "done"
    /\ UNCHANGED <<ledger, store, nextId, pc, queue, runs, used, prevStore, predVars,
                   ledgerB, storeB, nextIdB, queueB, reportVars>>

NextPair ==
    \/ StartRun /\ runs = 0
    \/ ProcessGame
    \/ FinishRun
    \/ StartRunB
    \/ ProcessGameB
    \/ FinishRunB

SpecPair == InitPair /\ [][NextPair]_vars

\* nothing is loaded and no pipeline process has run
PipelineIdle ==
    /\ ledger = NoGames
    /\ ledgerB = NoGames
    /\ FirstDatabase
    /\ config = DefaultConfig
    /\ storeB = {}
    /\ nextIdB = 1
    /\ pcB = "idle"
    /\ queueB = <<>>

\* ------------------------------------------ calculate_season_projections
RECURSIVE SumOver(_, _)
SumOver(f, S) ==
    IF S = {} THEN 0
    ELSE LET x == CHOOSE y \in S : TRUE IN f[x] + SumOver(f, S \ {x})

\* played_games: the team's games with home_team_score IS NOT NULL
PlayedGames(L, t) ==
    {g \in GameIds(L) : Plays(L, g, t) /\ ~IsNull(L[g].home_team_score)}

\* the team won played game g
WonPlayed(L, t, g) ==
    IF L[g].home_team_id = t
    THEN Val(L[g].home_team_score) > Val(L[g].away_team_score)
    ELSE Val(L[g].away_team_score) > Val(L[g].home_team_score)

\* remaining_games: the team's scheduled games, outer-joined to predictions
RemainingGames(L, t) ==
    {g \in GameIds(L) : Plays(L, g, t) /\ L[g].status = "scheduled"}

\* not game_result[0]: no prediction row, or a home_win_prob of 0.0
NoPredictionYet(P, g) == g \notin DOMAIN P \/ P[g].home_win_prob = 0

\* prob, taking the home probability whichever side the team is on
TeamWinProbNoFlip(L, P, t, g) == P[g].home_win_prob

\* prob: the team's own win probability in game g
TeamWinProb(L, P, t, g) ==
    IF L[g].home_team_id = t THEN P[g].home_win_prob ELSE SCALE - P[g].home_win_prob

\* opponent_win_prob
OpponentWinProb(L, P, t, g) ==
    IF L[g].home_team_id = t THEN SCALE - P[g].home_win_prob ELSE P[g].home_win_prob

\* the loop body of calculate_season_projections for one team; probabilities
\* and win totals in units of 1/SCALE, schedule_adjustment in thousandths
TeamProjection(L, P, t) ==
    LET played == PlayedGames(L, t)
        wins == Cardinality({g \in played : WonPlayed(L, t, g)})
        losses == Cardinality(played) - wins
        remaining == RemainingGames(L, t)
        remaining_count == Cardinality(remaining)
        summed == {g \in remaining : ~NoPredictionYet(P, g)}
        remaining_wins_sum == SumOver([g \in summed |-> TeamWinProb(L, P, t, g)], summed)
        remaining_strength_sum ==
            SumOver([g \in summed |-> OpponentWinProb(L, P, t, g)], summed)
        adjusts == remaining_count > 0 /\ remaining_strength_sum > 0
        schedule_adjustment ==
            IF adjusts THEN RoundDiv(MILLI * remaining_count * SCALE, 2 * remaining_strength_sum)
            ELSE MILLI
        projected_remaining_wins ==
            IF adjusts
            THEN RoundDiv(remaining_wins_sum * remaining_count * SCALE,
                          2 * remaining_strength_sum)
            ELSE remaining_wins_sum
    IN [current_wins |-> wins,
        current_losses |-> losses,
        remaining_games |-> remaining_count,
        remaining_wins_sum |-> remaining_wins_sum,
        projected_remaining_wins |-> projected_remaining_wins,
        projected_total_wins |-> wins * SCALE + projected_remaining_wins,
        schedule_adjustment |-> schedule_adjustment,
        mc_games |-> summed,
        monte_carlo |-> summed # {}]

\* calculate_season_projections: one projection per team
CalculateSeasonProjections ==
    /\ pc # "running"
    /\ projections' = [t \in Teams |-> TeamProjection(ledger, preds, t)]
    /\ UNCHANGED <<ledger, store, nextId, pc, queue, runs, used, prevStore, predVars,
                   secondVars, simVars, eloVars>>

ScheduledGames == {g \in OpenGames : g.status = "scheduled"}

\* a season in progress: played and scheduled games in any mix
SeasonLedgers ==
    {L \in [1..MaxGames -> FinishedGames \cup ScheduledGames] : UqGame(L)}

\* prediction rows a scheduled game can have: the classifier's output or the
\* neutral value, blended with the rating probability of two equal ratings
ScheduledPredictions ==
    {GamePredictionRow(lgb, GetEloWinProbability(ELO_INITIAL, ELO_INITIAL)) :
        lgb \in LgbProbs \cup {NEUTRAL_PROB}}

\* the predictions table: rows for some of the scheduled games
SeasonPredictions(L) ==
    UNION {[S -> ScheduledPredictions] :
              S \in SUBSET {g \in GameIds(L) : L[g].status = "scheduled"}}

\* the projection script starts on a loaded season with its predictions
InitProj ==
    /\ ledger \in SeasonLedgers
    /\ preds \in SeasonPredictions(ledger)
    /\ store = {}
    /\ nextId = 1
    /\ pc = "idle"
    /\ queue = <<>>
    /\ runs = 0
    /\ used = NoUse
    /\ prevStore = <<>>
    /\ predStore = {}
    /\ lgbProbOf = NoPredRun
    /\ lgbRowOf = NoPredRun
    /\ config = DefaultConfig
    /\ ledgerB = NoGames
    /\ storeB = {}
    /\ nextIdB = 1
    /\ pcB = "idle"
    /\ queueB = <<>>
    /\ ReportIdle

NextProj == CalculateSeasonProjections

SpecProj == InitProj /\ [][NextProj]_vars

\* ------------------------- the current record on a season with live games
\* scores the data source reports while a game is under way
LiveScores == {<<50, 48>>, <<50, 50>>}

\* rows of games in progress: load_games copies status and scores as sent
LiveGames == {Game(d, m[1], m[2], Some(sc[1]), Some(sc[2]), "in_progress") :
                 d \in Dates, m \in Matchups, sc \in LiveScores}

\* a season with played, scheduled and live games in any mix
RecordLedgers ==
    {L \in [1..MaxGames -> FinishedGames \cup ScheduledGames \cup LiveGames] : UqGame(L)}

\* the projection script starts on such a season, before any prediction
InitRecord ==
    /\ ledger \in RecordLedgers
    /\ preds = NoPredictions
    /\ store = {}
    /\ nextId = 1
    /\ pc = "idle"
    /\ queue = <<>>
    /\ runs = 0
    /\ used = NoUse
    /\ prevStore = <<>>
    /\ predStore = {}
    /\ lgbProbOf = NoPredRun
    /\ lgbRowOf = NoPredRun
    /\ config = DefaultConfig
    /\ ledgerB = NoGames
    /\ storeB = {}
    /\ nextIdB = 1
    /\ pcB = "idle"
    /\ queueB = <<>>
    /\ ReportIdle

SpecRecord == InitRecord /\ [][NextProj]_vars

\* --------------------------------------------- run_monte_carlo_simulation
\* probabilities in units of 1/SCALE
MOMENTUM_BOOST == 200
PROB_FLOOR == 500
PROB_CEIL == 9500
MOMENTUM_WINDOW == 5

\* team_id = None
NoTeam == 0

SimGame(h, a, p) == [home_team_id |-> h, away_team_id |-> a, home_win_prob |-> p]

\* the game is replayed for team_id (every game when team_id is None)
Involves(game, team_id) ==
    team_id = NoTeam \/ game.home_team_id = team_id \/ game.away_team_id = team_id

\* team_win_prob
SimTeamWinProb(game, team_id) ==
    IF team_id = NoTeam \/ game.home_team_id = team_id
    THEN game.home_win_prob
    ELSE SCALE - game.home_win_prob

\* momentum_boost with a hot streak from three wins of five
MomentumBoostFromThree(recent) ==
    IF Len(recent) >= MOMENTUM_WINDOW
    THEN LET recent_5_wins == SumSeq(LastN(recent, MOMENTUM_WINDOW))
         IN IF recent_5_wins >= 3 THEN MOMENTUM_BOOST
            ELSE IF recent_5_wins <= 1 THEN 0 - MOMENTUM_BOOST
            ELSE 0
    ELSE 0

\* momentum_boost from the outcomes recorded so far
MomentumBoost(recent) ==
    IF Len(recent) >= MOMENTUM_WINDOW
    THEN LET recent_5_wins == SumSeq(LastN(recent, MOMENTUM_WINDOW))
         IN IF recent_5_wins >= 4 THEN MOMENTUM_BOOST
            ELSE IF recent_5_wins <= 1 THEN 0 - MOMENTUM_BOOST
            ELSE 0
    ELSE 0

\* max(0.05, min(0.95, x))
ClampProb(x) == IF x < PROB_FLOOR THEN PROB_FLOOR ELSE IF x > PROB_CEIL THEN PROB_CEIL ELSE x

\* adjusted_prob with the clamp applied to the input instead of the sum
AdjustedProbClampFirst(team_win_prob, momentum_boost) ==
    ClampProb(team_win_prob) + momentum_boost

\* adjusted_prob = max(0.05, min(0.95, team_win_prob + momentum_boost))
AdjustedProb(team_win_prob, momentum_boost) ==
    ClampProb(team_win_prob + momentum_boost)

\* the values random.random() < adjusted_prob can take, random() in [0, 1)
DrawOutcomes(adjusted_prob) ==
    {TRUE : x \in {1} \cap (IF adjusted_prob > 0 THEN {1} ELSE {})} \cup
    {FALSE : x \in {1} \cap (IF adjusted_prob < SCALE THEN {1} ELSE {})}

\* recent_results after a game, with nothing popped
WindowAfterUntrimmed(recent, game_won) ==
    Append(recent, IF game_won THEN 1 ELSE 0)

\* recent_results after a game: the outcome is appended and, beyond five
\* entries, the oldest is popped
WindowAfter(recent, game_won) ==
    LET appended == Append(recent, IF game_won THEN 1 ELSE 0)
    IN IF Len(appended) > MOMENTUM_WINDOW THEN LastN(appended, MOMENTUM_WINDOW) ELSE appended

\* sim_losses after a game, counting a loss whatever the outcome
LossesAfterAlways(losses, game_won) == losses + 1

\* sim_losses after a game
LossesAfter(losses, game_won) == IF game_won THEN losses ELSE losses + 1

\* sim_wins after a game
WinsAfter(wins, game_won) == IF game_won THEN wins + 1 ELSE wins

\* iterations of the loop, one even for a non-positive num_simulations
IterationsAtLeastOne(num_simulations) == IF num_simulations > 0 THEN num_simulations ELSE 1

\* iterations of for sim_num in range(num_simulations)
Iterations(num_simulations) == IF num_simulations > 0 THEN num_simulations ELSE 0

\* the middle index, rounding down for an even count
MedianIndexLow(n) == (n - 1) \div 2

\* len(simulated_final_wins) // 2 (0-based)
MedianIndex(n) == n \div 2

\* int(len(simulated_final_wins) * 0.10) and int(len(...) * 0.90) (0-based)
P10Index(n) == n \div 10
P90Index(n) == (9 * n) \div 10

RECURSIVE ISqrtBetween(_, _, _)
ISqrtBetween(n, lo, hi) ==
    IF lo >= hi THEN lo
    ELSE LET mid == (lo + hi + 1) \div 2
         IN IF mid * mid <= n THEN ISqrtBetween(n, mid, hi) ELSE ISqrtBetween(n, lo, mid - 1)

\* x ** 0.5 rounded down, for 0 <= x < 2^30
ISqrt(n) == ISqrtBetween(n, 0, 32767)

\* the statistics of lines 132-153 over the sorted samples (a non-empty
\* list); mean_wins and std_dev in thousandths
SimulationResultOf(sorted) ==
    LET n == Len(sorted)
        total == SumSeq(sorted)
        squares == SumSeq([i \in 1..n |-> sorted[i] * sorted[i]])
    IN [mean_wins |-> RoundDiv(total * MILLI, n),
        median_wins |-> sorted[MedianIndex(n) + 1],
        std_dev |-> ISqrt(((n * squares - total * total) * MILLI * MILLI) \div (n * n)),
        percentile_10 |-> sorted[P10Index(n) + 1],
        percentile_90 |-> sorted[P90Index(n) + 1],
        distribution |-> sorted]

AllSame(n, h, a, p) == [i \in 1..n |-> SimGame(h, a, p)]

\* the blended probabilities the remaining games carry
SimProbs == {SCALE \div 2, SCALE}

\* remaining_games lists: none, one or MaxSimGames games of team 1 at home or
\* away at one probability, and a list with a game of two other teams in it
SimSchedules ==
    {AllSame(n, 1, 2, p) : n \in {0, 1, MaxSimGames}, p \in SimProbs} \cup
    {AllSame(n, 2, 1, p) : n \in {1, MaxSimGames}, p \in SimProbs} \cup
    {<<SimGame(2, 3, SCALE), SimGame(1, 2, SCALE \div 2), SimGame(3, 1, SCALE \div 2)>>}

\* the calls considered: for team 1 on every list, without a team on the mixed
\* one; num_simulations from -1
SimCalls ==
    {[current_wins |-> r[1], current_losses |-> r[2], remaining_games |-> sch,
      num_simulations |-> n, team_id |-> t] :
        r \in {<<0, 0>>, <<1, 2>>}, sch \in SimSchedules,
        n \in (0 - 1)..MaxSims, t \in {1}} \cup
    {[current_wins |-> 1, current_losses |-> 2, remaining_games |-> sch,
      num_simulations |-> n, team_id |-> NoTeam] :
        sch \in {x \in SimSchedules : Len(x) = 3}, n \in 0..1}

InitSim ==
    /\ PipelineIdle
    /\ projections = NoProjections
    /\ eloArgs = <<>>
    /\ eloProb = <<>>
    /\ simArgs \in SimCalls
    /\ simPc = "idle"
    /\ sim_num = 0
    /\ game_idx = 0
    /\ sim_wins = 0
    /\ sim_losses = 0
    /\ recent_results = <<>>
    /\ simulated_final_wins = <<>>
    /\ lastDraw = <<>>
    /\ simResult = <<>>
    /\ rngPos = 0
    /\ ownPos = 0
    /\ prevResult = <<>>
    /\ run_outcomes = <<>>

\* line 63: the call starts with an empty list of samples
SimCall ==
    /\ simPc = "idle"
    /\ simArgs # NoSimArgs
    /\ simPc' = "between"
    /\ simulated_final_wins' = <<>>
    /\ sim_num' = 0
    /\ ownPos' = rngPos
    /\ UNCHANGED <<ledger, store, nextId, pc, queue, runs, used, prevStore, predVars,
                   secondVars, projVars, eloVars, run_outcomes, rngPos, prevResult,
                   simArgs, game_idx, sim_wins,
                   sim_losses, recent_results, lastDraw, simResult>>

\* lines 66-73: the next simulation starts from the current record
BeginSimulation ==
    /\ simPc = "between"
    /\ sim_num < Iterations(simArgs.num_simulations)
    /\ simPc' = "sim"
    /\ sim_wins' = simArgs.current_wins
    /\ sim_losses' = simArgs.current_losses
    /\ recent_results' = <<>>
    /\ game_idx' = 0
    /\ lastDraw' = <<>>
    /\ run_outcomes' = <<>>
    /\ UNCHANGED <<ledger, store, nextId, pc, queue, runs, used, prevStore, predVars,
                   secondVars, projVars, eloVars, rngPos, ownPos, prevResult, simArgs, sim_num,
                   simulated_final_wins, simResult>>

\* lines 89-91: a game of two other teams is passed over
SkipGame ==
    /\ simPc = "sim"
    /\ game_idx < Len(simArgs.remaining_games)
    /\ ~Involves(simArgs.remaining_games[game_idx + 1], simArgs.team_id)
    /\ game_idx' = game_idx + 1
    /\ UNCHANGED <<ledger, store, nextId, pc, queue, runs, used, prevStore, predVars,
                   secondVars, projVars, eloVars, run_outcomes, rngPos, ownPos, prevResult,
                   simArgs, simPc, sim_num, sim_wins,
                   sim_losses, recent_results, simulated_final_wins, lastDraw,
                   simResult>>

\* lines 76-127: one game is drawn and counted
PlayGame ==
    /\ simPc = "sim"
    /\ game_idx < Len(simArgs.remaining_games)
    /\ LET game == simArgs.remaining_games[game_idx + 1]
           team_win_prob == SimTeamWinProb(game, simArgs.team_id)
           momentum_boost == MomentumBoost(recent_results)
           adjusted_prob == AdjustedProb(team_win_prob, momentum_boost)
       IN /\ Involves(game, simArgs.team_id)
          /\ \E game_won \in DrawOutcomes(adjusted_prob) :
                /\ sim_wins' = WinsAfter(sim_wins, game_won)
                /\ sim_losses' = LossesAfter(sim_losses, game_won)
                /\ recent_results' = WindowAfter(recent_results, game_won)
                /\ run_outcomes' = Append(run_outcomes, IF game_won THEN 1 ELSE 0)
                /\ lastDraw' = <<[game_idx |-> game_idx,
                                  team_win_prob |-> team_win_prob,
                                  momentum_boost |-> momentum_boost,
                                  adjusted_prob |-> adjusted_prob,
                                  game_won |-> game_won,
                                  wins_before |-> sim_wins,
                                  losses_before |-> sim_losses,
                                  recent_before |-> recent_results,
                                  rng_pos |-> rngPos,
                                  own_pos |-> ownPos]>>
    /\ game_idx' = game_idx + 1
    /\ rngPos' = rngPos + 1
    /\ ownPos' = ownPos + 1
    /\ UNCHANGED <<ledger, store, nextId, pc, queue, runs, used, prevStore, predVars,
                   secondVars, projVars, eloVars, prevResult, simArgs, simPc, sim_num,
                   simulated_final_wins, simResult>>

\* line 129: the schedule is exhausted and the win total is recorded
EndSimulation ==
    /\ simPc = "sim"
    /\ game_idx = Len(simArgs.remaining_games)
    /\ simulated_final_wins' = Append(simulated_final_wins, sim_wins)
    /\ sim_num' = sim_num + 1
    /\ simPc' = "between"
    /\ UNCHANGED <<ledger, store, nextId, pc, queue, runs, used, prevStore, predVars,
                   secondVars, projVars, eloVars, run_outcomes, rngPos, ownPos, prevResult,
                   simArgs, game_idx, sim_wins,
                   sim_losses, recent_results, lastDraw, simResult>>

\* lines 131-153: the samples are sorted and summarised
ReturnResult ==
    /\ simPc = "between"
    /\ sim_num >= Iterations(simArgs.num_simulations)
    /\ simulated_final_wins # <<>>
    /\ simResult' = <<SimulationResultOf(SortSeq(simulated_final_wins,
                                                 LAMBDA a, b : a < b))>>
    /\ simPc' = "returned"
    /\ UNCHANGED <<ledger, store, nextId, pc, queue, runs, used, prevStore, predVars,
                   secondVars, projVars, eloVars, run_outcomes, rngPos, ownPos, prevResult,
                   simArgs, sim_num, game_idx, sim_wins,
                   sim_losses, recent_results, simulated_final_wins, lastDraw>>

\* line 133: sum([]) / len([]) raises ZeroDivisionError
RaiseZeroDivision ==
    /\ simPc = "between"
    /\ sim_num >= Iterations(simArgs.num_simulations)
    /\ simulated_final_wins = <<>>
    /\ simPc' = "raised"
    /\ UNCHANGED <<ledger, store, nextId, pc, queue, runs, used, prevStore, predVars,
                   secondVars, projVars, eloVars, run_outcomes, rngPos, ownPos, prevResult,
                   simArgs, sim_num, game_idx, sim_wins,
                   sim_losses, recent_results, simulated_final_wins, lastDraw,
                   simResult>>

NextSim ==
    \/ SimCall
    \/ BeginSimulation
    \/ SkipGame
    \/ PlayGame
    \/ EndSimulation
    \/ ReturnResult
    \/ RaiseZeroDivision

SpecSim == InitSim /\ [][NextSim]_vars

\* ----------------------- the generator of module random, which is shared
\* numbers another caller may draw while one call is under way
MaxOtherDraws == 2

\* the calls replayed twice: short lists, at most two simulations
RngCalls ==
    {c \in SimCalls : Len(c.remaining_games) <= 3 /\ c.num_simulations <= 2}

InitRng ==
    /\ InitSim
    /\ simArgs \in RngCalls

\* random.random() called by anyone else in the process: another request of
\* the API, another call of the simulator; the generator moves on
OtherCallerDraws ==
    /\ rngPos - ownPos < MaxOtherDraws
    /\ rngPos' = rngPos + 1
    /\ UNCHANGED <<ledger, store, nextId, pc, queue, runs, used, prevStore, predVars,
                   secondVars, projVars, eloVars, run_outcomes, simArgs, simPc, sim_num,
                   game_idx,
                   sim_wins, sim_losses, recent_results, simulated_final_wins,
                   lastDraw, simResult, ownPos, prevResult>>

\* the caller invokes run_monte_carlo_simulation again on the same arguments;
\* the function takes no seed and nothing reseeds the generator in between
SimCallAgain ==
    /\ simPc = "returned"
    /\ prevResult = <<>>
    /\ prevResult' = simResult
    /\ simPc' = "idle"
    /\ sim_num' = 0
    /\ game_idx' = 0
    /\ sim_wins' = 0
    /\ sim_losses' = 0
    /\ recent_results' = <<>>
    /\ simulated_final_wins' = <<>>
    /\ lastDraw' = <<>>
    /\ simResult' = <<>>
    /\ run_outcomes' = <<>>
    /\ UNCHANGED <<ledger, store, nextId, pc, queue, runs, used, prevStore, predVars,
                   secondVars, projVars, eloVars, simArgs, rngPos, ownPos>>

NextRng ==
    \/ SimCall
    \/ BeginSimulation
    \/ SkipGame
    \/ PlayGame
    \/ EndSimulation
    \/ ReturnResult
    \/ RaiseZeroDivision
    \/ OtherCallerDraws
    \/ SimCallAgain

SpecRng == InitRng /\ [][NextRng]_vars

\* ------------------------------------- get_elo_win_probability on its own
Ratings == {ELO_INITIAL + 25 * k + j : k \in (0 - MaxRatingGap)..MaxRatingGap, j \in {0, 1}}

InitElo ==
    /\ PipelineIdle
    /\ projections = NoProjections
    /\ SimIdle
    /\ eloArgs \in {[a |-> a, b |-> b] : a \in Ratings, b \in Ratings}
    /\ eloProb = <<>>

\* get_elo_win_probability(a, b) and get_elo_win_probability(b, a)
EloWinProbabilityBothWays ==
    /\ eloArgs # <<>>
    /\ eloProb = <<>>
    /\ eloProb' = <<[ab |-> GetEloWinProbability(eloArgs.a, eloArgs.b),
                     ba |-> GetEloWinProbability(eloArgs.b, eloArgs.a)]>>
    /\ UNCHANGED <<ledger, store, nextId, pc, queue, runs, used, prevStore, predVars,
                   secondVars, projVars, simVars, eloArgs>>

NextElo == EloWinProbabilityBothWays

SpecElo == InitElo /\ [][NextElo]_vars

\* ================================================================ claims
\* Reference notions of the data model: the total order (game_date, id).

\* the team's Final games strictly before game g in (game_date, id) order
PriorGames(L, team_id, g) ==
    {p \in GameIds(L) : Plays(L, p, team_id) /\ IsFinal(L, p) /\ OrderLess(L, p, g)}

PointsFor(L, team_id, g) ==
    IF L[g].home_team_id = team_id THEN Val(L[g].home_team_score)
    ELSE Val(L[g].away_team_score)
PointsAgainst(L, team_id, g) ==
    IF L[g].home_team_id = team_id THEN Val(L[g].away_team_score)
    ELSE Val(L[g].home_team_score)

\* the rating before game g: elo_rating of the team's most recent snapshot
\* strictly before g in (game_date, id) order, ELO_INITIAL if there is none
PreGameRating(L, St, team_id, g) ==
    LET rows == {r \in St : /\ r.team_id = team_id
                            /\ r.game_id \in GameIds(L)
                            /\ OrderLess(L, r.game_id, g)}
    IN IF rows = {} THEN ELO_INITIAL
       ELSE (CHOOSE r \in rows : \A o \in rows :
                o.game_id = r.game_id \/ OrderLess(L, o.game_id, r.game_id)).elo_rating

Participants(L, g) == {L[g].home_team_id, L[g].away_team_id}
Snapshots(St) == {StatsOf(r) : r \in St}
RunCompleted == pc = "done"

\* games of either ledger and their place in the (game_date, id) order
BothIds == GameIds(ledger) \cup GameIds(ledgerB)
DateIn2(g) == IF g \in GameIds(ledger) THEN ledger[g].game_date ELSE ledgerB[g].game_date
Before2(p, g) == DateIn2(p) < DateIn2(g) \/ (DateIn2(p) = DateIn2(g) /\ p < g)
SameBefore(g) ==
    \A p \in BothIds : Before2(p, g) =>
        p \in GameIds(ledger) /\ p \in GameIds(ledgerB) /\ ledger[p] = ledgerB[p]
SnapshotsOf(St, g) == {StatsOf(r) : r \in {x \in St : x.game_id = g}}
PreGameFields(snap) == [f \in DOMAIN snap \ {"elo_rating", "game_won"} |-> snap[f]]

\* C1: two ledgers that agree on every game before G, each processed by one
\* full run on an empty store, end with the same snapshots for every game
\* before G, and their snapshots of G agree outside elo_rating and game_won.
C1_NoLeakage ==
    (FirstRunDone /\ pcB = "done") =>
        \A g \in BothIds : SameBefore(g) =>
            /\ \A p \in BothIds : Before2(p, g) =>
                  SnapshotsOf(store, p) = SnapshotsOf(storeB, p)
            /\ (SnapshotsOf(store, g) # {} /\ SnapshotsOf(storeB, g) # {}) =>
                  {PreGameFields(x) : x \in SnapshotsOf(store, g)}
                      = {PreGameFields(x) : x \in SnapshotsOf(storeB, g)}

\* C2: after a completed run, every Final game's snapshots carry the record
\* over the team's Final games strictly before it in (game_date, id) order:
\* games_played, wins, losses count them, wins + losses = games_played and
\* win_pct = wins / games_played (0 without prior games).
C2_RecordCountsPriorGames ==
    RunCompleted =>
        \A g \in GameIds(ledger) : IsFinal(ledger, g) =>
            \A t \in Participants(ledger, g) :
                LET prior == PriorGames(ledger, t, g)
                    won == {p \in prior : PointsFor(ledger, t, p) > PointsAgainst(ledger, t, p)}
                    lost == {p \in prior : PointsFor(ledger, t, p) < PointsAgainst(ledger, t, p)}
                IN /\ RowsFor(store, g, t) # {}
                   /\ \A r \in RowsFor(store, g, t) :
                        /\ r.games_played = Cardinality(prior)
                        /\ r.wins = Cardinality(won)
                        /\ r.losses = Cardinality(lost)
                        /\ r.wins + r.losses = r.games_played
                        /\ r.win_pct = IF r.games_played = 0 THEN 0
                                       ELSE (r.wins * MILLI) \div r.games_played

\* C3: the pre-game rating the engine reads for either team while it processes
\* game G is the rating of the team's most recent snapshot strictly before G in
\* (game_date, id) order, ELO_INITIAL without one, never G's own snapshot.
C3_EngineReadsRatingBeforeGame ==
    used.game # 0 =>
        LET g == used.game
            home == ledger[g].home_team_id
            away == ledger[g].away_team_id
        IN /\ used.home_pre = PreGameRating(ledger, store, home, g)
           /\ used.away_opp = PreGameRating(ledger, store, home, g)
           /\ used.away_pre = PreGameRating(ledger, store, away, g)
           /\ used.home_opp = PreGameRating(ledger, store, away, g)

\* C4: every stored prediction's rating-implied probability comes from the two
\* teams' ratings before the game -- their most recent snapshots strictly
\* before it in (game_date, id) order, ELO_INITIAL without one -- also when the
\* game's own post-game snapshots were already in the store.
C4_PredictionUsesPreGameRating ==
    \A g \in DOMAIN preds :
        preds[g].elo_home_prob =
            GetEloWinProbability(
                PreGameRating(ledger, predStore, ledger[g].home_team_id, g),
                PreGameRating(ledger, predStore, ledger[g].away_team_id, g))

\* a prediction regenerated after its game was played: the game's own snapshot
\* was in the store and holds a rating other than the pre-game one
C4_Witness ==
    \E g \in DOMAIN preds :
        /\ IsFinal(ledger, g)
        /\ \E r \in RowsFor(predStore, g, ledger[g].home_team_id) :
              r.elo_rating # PreGameRating(ledger, predStore, ledger[g].home_team_id, g)
        /\ \E t \in Participants(ledger, g) : PriorGames(ledger, t, g) # {}

\* C5: a run that repeats a completed run on the unchanged ledger ends with
\* the same snapshots, key for key and field for field.
C5_RerunIdempotent ==
    (RunCompleted /\ prevStore # <<>>) => Snapshots(store) = Snapshots(prevStore[1])

\* C6: the elo_rating stored for a processed game is pre + K * (won - expected)
\* over the two teams' ratings before the game, for the home and the away team.
C6_StoredRatingFromPreGameRatings ==
    used.game # 0 =>
        LET g == used.game
            home == ledger[g].home_team_id
            away == ledger[g].away_team_id
            pre_home == PreGameRating(ledger, store, home, g)
            pre_away == PreGameRating(ledger, store, away, g)
        IN /\ \A r \in RowsFor(store, g, home) :
                r.elo_rating = CalculateElo(pre_home, pre_away, r.game_won)
           /\ \A r \in RowsFor(store, g, away) :
                r.elo_rating = CalculateElo(pre_away, pre_home, r.game_won)

C8_OpenGameSkipped ==
    pc \in {"done", "failed"} =>
        \A g \in GameIds(ledger) :
            IF IsFinal(ledger, g) /\ ScoresKnown(ledger, g)
            THEN \A t \in Participants(ledger, g) : RowsFor(store, g, t) # {}
            ELSE \A t \in Participants(ledger, g) : RowsFor(store, g, t) = {}

\* the mean over the min(w, n) most recent prior games, in thousandths
WindowSum(L, team_id, S, w, F(_, _, _)) ==
    LET ord == SortByDateId(L, S)
        vals == [i \in 1..Len(ord) |-> F(L, team_id, ord[i])]
    IN SumSeq(LastN(vals, w))
Min(a, b) == IF a <= b THEN a ELSE b
WindowMean(L, team_id, S, w, F(_, _, _)) ==
    Some((WindowSum(L, team_id, S, w, F) * MILLI) \div Min(w, Cardinality(S)))

\* C9: in every snapshot ppf_w and ppa_w are null exactly when the team has no
\* prior game, otherwise the means over the min(w, n) most recent of its n
\* prior games, and diff_w is their difference (null when they are).
C9_RollingWindows ==
    RunCompleted =>
        \A r \in store : (r.game_id \in GameIds(ledger) /\ IsFinal(ledger, r.game_id)) =>
            LET prior == PriorGames(ledger, r.team_id, r.game_id)
                Ok(w, ppf, ppa, diff) ==
                    IF prior = {} THEN IsNull(ppf) /\ IsNull(ppa) /\ IsNull(diff)
                    ELSE /\ ppf = WindowMean(ledger, r.team_id, prior, w, PointsFor)
                         /\ ppa = WindowMean(ledger, r.team_id, prior, w, PointsAgainst)
                         /\ diff = Some(Val(ppf) - Val(ppa))
            IN /\ Ok(5, r.ppf_5game, r.ppa_5game, r.diff_5game)
               /\ Ok(10, r.ppf_10game, r.ppa_10game, r.diff_10game)
               /\ Ok(20, r.ppf_20game, r.ppa_20game, r.diff_20game)
               /\ Ok(100, r.ppf_100game, r.ppa_100game, r.diff_100game)

\* C10: in every snapshot days_rest is null exactly when the team has no
\* previous game, otherwise the days since it, and back_to_back = 1 exactly
\* when days_rest = 0.
C10_RestDaysAndBackToBack ==
    RunCompleted =>
        \A r \in store : (r.game_id \in GameIds(ledger) /\ IsFinal(ledger, r.game_id)) =>
            LET prior == PriorGames(ledger, r.team_id, r.game_id)
            IN /\ IsNull(r.days_rest) <=> prior = {}
               /\ prior # {} =>
                    r.days_rest = Some(ledger[r.game_id].game_date - MaxDateOf(ledger, prior))
               /\ r.back_to_back = 1 <=> r.days_rest = Some(0)

\* C11: every stored prediction has home_win_prob = 0.70 * external + 0.30 *
\* rating probability clamped to [0,1], away_win_prob in [0,1], the two summing
\* to 1, and keeps the two component probabilities that produced it: the
\* classifier's output for the game (0.5 without one) and the probability
\* implied by the two pre-game ratings.
C11_BlendedPrediction ==
    \A g \in DOMAIN preds :
        LET p == preds[g]
            external == IF IsNull(lgbProbOf[g]) THEN SCALE \div 2 ELSE Val(lgbProbOf[g])
            rating == GetEloWinProbability(
                          PreGameRating(ledger, predStore, ledger[g].home_team_id, g),
                          PreGameRating(ledger, predStore, ledger[g].away_team_id, g))
            blended == RoundDiv(7 * external + 3 * rating, 10)
        IN /\ p.lightgbm_home_prob = external
           /\ p.elo_home_prob = rating
           /\ p.home_win_prob = (IF blended > SCALE THEN SCALE ELSE IF blended < 0 THEN 0 ELSE blended)
           /\ p.home_win_prob \in 0..SCALE
           /\ p.away_win_prob \in 0..SCALE
           /\ p.home_win_prob + p.away_win_prob = SCALE

\* a prediction blended from a classifier output and a rating probability that
\* differ from each other and from 0.5
C11_Witness ==
    \E g \in DOMAIN preds :
        /\ ~IsNull(lgbProbOf[g])
        /\ preds[g].elo_home_prob # SCALE \div 2
        /\ preds[g].elo_home_prob # preds[g].lightgbm_home_prob
        /\ preds[g].home_win_prob \notin {preds[g].elo_home_prob, preds[g].lightgbm_home_prob}

\* C12: a game for which generate_predictions had no classifier probability
\* still gets a prediction, blended with 0.5 as the external component.
C12_NeutralFallbackStillPredicts ==
    \A g \in DOMAIN lgbProbOf :
        IsNull(lgbProbOf[g]) =>
            /\ g \in DOMAIN preds
            /\ preds[g].lightgbm_home_prob = SCALE \div 2

\* C13: predictions are only ever blended under weights that Config.validate
\* accepts, and with those configured weights.
C13_WeightsValidatedAndUsed ==
    \A g \in DOMAIN preds :
        /\ ~ConfigValidateRaises(config)
        /\ preds[g].home_win_prob =
              Clamp01(RoundDiv(config.LIGHTGBM_WEIGHT * preds[g].lightgbm_home_prob
                               + config.ELO_WEIGHT * preds[g].elo_home_prob, MILLI))

C15_ExpectedRemainingWins ==
    projections # NoProjections =>
        \A t \in Teams :
            LET withPred == {g \in GameIds(ledger) :
                                /\ ledger[g].status = "scheduled"
                                /\ t \in {ledger[g].home_team_id, ledger[g].away_team_id}
                                /\ g \in DOMAIN preds}
                share == [g \in withPred |->
                             IF ledger[g].home_team_id = t
                             THEN preds[g].home_win_prob
                             ELSE SCALE - preds[g].home_win_prob]
            IN /\ t \in DOMAIN projections
               /\ projections[t].remaining_wins_sum = SumOver(share, withPred)

\* a team projected over a scheduled home game and a scheduled away game with
\* predictions other than 0.5, and a third scheduled game without a prediction
C15_Witness ==
    /\ projections # NoProjections
    /\ \E t \in Teams : \E g1, g2, g3 \in GameIds(ledger) :
          /\ \A g \in {g1, g2, g3} : ledger[g].status = "scheduled"
          /\ ledger[g1].home_team_id = t /\ g1 \in DOMAIN preds
          /\ ledger[g2].away_team_id = t /\ g2 \in DOMAIN preds
          /\ preds[g2].home_win_prob # SCALE \div 2
          /\ t \in {ledger[g3].home_team_id, ledger[g3].away_team_id}
          /\ g3 \notin DOMAIN preds

\* C16: the schedule adjustment factor is 0.5 / avgOpponentStrength, the mean
\* being taken over exactly the scheduled games whose probabilities were
\* summed, when there is such a game and the mean is positive; otherwise it
\* is 1.0, and with no remaining game projected total wins equal current wins.
C16_ScheduleAdjustment ==
    projections # NoProjections =>
        \A t \in Teams :
            LET remaining == {g \in GameIds(ledger) :
                                /\ ledger[g].status = "scheduled"
                                /\ t \in {ledger[g].home_team_id, ledger[g].away_team_id}}
                summed == remaining \cap DOMAIN preds
                opp == [g \in summed |->
                           IF ledger[g].home_team_id = t
                           THEN SCALE - preds[g].home_win_prob
                           ELSE preds[g].home_win_prob]
                total == SumOver(opp, summed)
            IN /\ projections[t].schedule_adjustment =
                    IF summed # {} /\ total > 0
                    THEN RoundDiv(MILLI * Cardinality(summed) * SCALE, 2 * total)
                    ELSE MILLI
               /\ (remaining = {} =>
                       projections[t].projected_total_wins =
                           projections[t].current_wins * SCALE)

\* the listed games among the first k that involve the simulated team
ListedFor(k) ==
    {i \in 1..k : simArgs.team_id \in {simArgs.remaining_games[i].home_team_id,
                                        simArgs.remaining_games[i].away_team_id}}

\* C17: in every simulation each replayed game adds exactly one to wins or to
\* losses, games of other teams change nothing, at the end of the schedule
\* wins + losses = currentWins + currentLosses + M (M = listed games involving
\* the team), and the recorded sample is the final wins, within
\* [currentWins, currentWins + M].
C17_ReplayAccounting ==
    simArgs.team_id # NoTeam =>
        LET cw == simArgs.current_wins
            cl == simArgs.current_losses
            M == Cardinality(ListedFor(Len(simArgs.remaining_games)))
        IN /\ simPc = "sim" =>
                /\ sim_wins + sim_losses = cw + cl + Cardinality(ListedFor(game_idx))
                /\ sim_wins >= cw /\ sim_losses >= cl
                /\ (ListedFor(game_idx) = {} =>
                        sim_wins = cw /\ sim_losses = cl /\ recent_results = <<>>)
           /\ lastDraw # <<>> =>
                /\ lastDraw[1].game_idx + 1 \in ListedFor(Len(simArgs.remaining_games))
                /\ sim_wins - lastDraw[1].wins_before \in {0, 1}
                /\ sim_losses - lastDraw[1].losses_before \in {0, 1}
                /\ (sim_wins - lastDraw[1].wins_before)
                     + (sim_losses - lastDraw[1].losses_before) = 1
           /\ (simPc = "between" /\ sim_num > 0) =>
                /\ sim_wins + sim_losses = cw + cl + M
                /\ simulated_final_wins[sim_num] = sim_wins
           /\ \A i \in 1..Len(simulated_final_wins) :
                simulated_final_wins[i] \in cw..(cw + M)

\* a simulation over a list holding a game of two other teams has ended with
\* one win and one loss added to the record
C17_Witness ==
    /\ simArgs.team_id # NoTeam
    /\ simPc = "between"
    /\ sim_num > 0
    /\ \E i \in 1..Len(simArgs.remaining_games) :
          i \notin ListedFor(Len(simArgs.remaining_games))
    /\ sim_wins = simArgs.current_wins + 1
    /\ sim_losses = simArgs.current_losses + 1

\* C18: the probability of every draw lies in [0.05, 0.95] whatever the input
\* probability and the momentum adjustment, so for every game about to be
\* replayed both a win and a loss can be drawn.
C18_DrawProbabilityClamped ==
    /\ lastDraw # <<>> =>
          (lastDraw[1].adjusted_prob >= 500 /\ lastDraw[1].adjusted_prob <= 9500)
    /\ (/\ simPc = "sim"
        /\ game_idx < Len(simArgs.remaining_games)
        /\ (simArgs.team_id = NoTeam \/ game_idx + 1 \in ListedFor(game_idx + 1)))
       => /\ ENABLED (PlayGame /\ sim_wins' = sim_wins + 1 /\ sim_losses' = sim_losses)
          /\ ENABLED (PlayGame /\ sim_losses' = sim_losses + 1 /\ sim_wins' = sim_wins)

\* on a hot streak, a game whose input probability is 1.0 was drawn at 0.95
\* and lost
C18_Witness ==
    /\ lastDraw # <<>>
    /\ lastDraw[1].team_win_prob = SCALE
    /\ lastDraw[1].momentum_boost > 0
    /\ lastDraw[1].adjusted_prob = 9500
    /\ ~lastDraw[1].game_won
    /\ sim_losses = lastDraw[1].losses_before + 1

\* how often v occurs in the list
Occurrences(list, v) == Cardinality({i \in 1..Len(list) : list[i] = v})

\* C19: a returned SimulationResult (N = numSimulations >= 1) has a
\* distribution sorted ascending holding exactly the N samples; median_wins is
\* its element at index N div 2, percentile_10 at floor(0.10 * N) and
\* percentile_90 at floor(0.90 * N), all inside the list, so
\* percentile_10 <= median_wins <= percentile_90.
C19_ResultStatistics ==
    simResult # <<>> =>
        LET r == simResult[1]
            N == simArgs.num_simulations
            d == r.distribution
        IN /\ N >= 1
           /\ Len(d) = N
           /\ Len(simulated_final_wins) = N
           /\ \A v \in 0..(simArgs.current_wins + MaxSimGames + 1) :
                 Occurrences(d, v) = Occurrences(simulated_final_wins, v)
           /\ \A i \in 1..(N - 1) : d[i] <= d[i + 1]
           /\ (N \div 10) + 1 \in 1..N
           /\ ((9 * N) \div 10) + 1 \in 1..N
           /\ r.median_wins = d[(N \div 2) + 1]
           /\ r.percentile_10 = d[(N \div 10) + 1]
           /\ r.percentile_90 = d[((9 * N) \div 10) + 1]
           /\ r.percentile_10 <= r.median_wins
           /\ r.median_wins <= r.percentile_90

\* a result over samples recorded in descending order, with the median
\* strictly between the two percentiles
C19_Witness ==
    /\ simResult # <<>>
    /\ Len(simulated_final_wins) >= 2
    /\ simulated_final_wins[1] > simulated_final_wins[2]
    /\ simResult[1].percentile_10 < simResult[1].median_wins
    /\ simResult[1].median_wins <= simResult[1].percentile_90

\* C20: a call with numSimulations <= 0 executes no simulation run and never
\* returns a SimulationResult; it ends in an error.
C20_NonPositiveSimulationsRejected ==
    simArgs.num_simulations <= 0 =>
        /\ simResult = <<>>
        /\ simPc \in {"idle", "between", "raised"}
        /\ sim_num = 0
        /\ simulated_final_wins = <<>>
        /\ lastDraw = <<>>

\* a call with a negative numSimulations and games to replay has raised
C20_Witness ==
    /\ simArgs.num_simulations < 0
    /\ simArgs.remaining_games # <<>>
    /\ simPc = "raised"

\* C21: the simulator can be seeded, and two invocations with the same seed
\* and the same inputs return the same SimulationResult.  The function has no
\* seed argument, so every pair of invocations on the same arguments is such
\* a pair.
C21_SameArgumentsSameResult ==
    (prevResult # <<>> /\ simResult # <<>>) => simResult = prevResult

\* C22: a run owns its pseudo-random stream: the numbers it draws are the
\* ones it would draw were nobody else drawing, whatever other callers do.
C22_RunOwnsItsStream ==
    lastDraw # <<>> => lastDraw[1].rng_pos = lastDraw[1].own_pos


C24_SlidingWindow ==
    simPc = "sim" =>
        LET k == Len(run_outcomes)
            m == IF k < 5 THEN k ELSE 5
        IN /\ Len(recent_results) <= 5
           /\ recent_results = [i \in 1..m |-> run_outcomes[k - m + i]]
           /\ (lastDraw = <<>> => recent_results = <<>>)

\* the window has dropped a win and holds a loss, in a simulation after the
\* first
C24_Witness ==
    /\ simPc = "sim"
    /\ sim_num >= 1
    /\ Len(run_outcomes) = 6
    /\ run_outcomes[1] = 1
    /\ run_outcomes[2] = 0
    /\ recent_results[1] = 0


\* C25: of the two snapshots of a processed game exactly one has game_won = 1
\* and the other 0, and the home side's is 1 exactly when the home score is
\* greater than the away score.
C25_OneWinnerPerGame ==
    \A g \in GameIds(ledger) :
        \A hr \in RowsFor(store, g, ledger[g].home_team_id),
           ar \in RowsFor(store, g, ledger[g].away_team_id) :
            /\ {hr.game_won, ar.game_won} = {0, 1}
            /\ Cardinality({r \in store : r.game_id = g /\ r.game_won = 1}) = 1
            /\ hr.game_won = 1 <=>
                  Val(ledger[g].home_team_score) > Val(ledger[g].away_team_score)

\* a run has processed a game the visitors won and one the hosts won
C25_Witness ==
    /\ RunCompleted
    /\ \E g \in GameIds(ledger) :
          /\ \E r \in RowsFor(store, g, ledger[g].away_team_id) : r.game_won = 1
          /\ Val(ledger[g].home_team_score) < Val(ledger[g].away_team_score)
    /\ \E g \in GameIds(ledger) :
          \E r \in RowsFor(store, g, ledger[g].home_team_id) : r.game_won = 1


\* G1 and G2 are consecutive Final games of the team in (game_date, id) order
ConsecutiveGames(L, team_id, g1, g2) ==
    /\ g1 \in PriorGames(L, team_id, g2)
    /\ Plays(L, g2, team_id) /\ IsFinal(L, g2)
    /\ ScoresKnown(L, g1) /\ ScoresKnown(L, g2)
    /\ \A p \in PriorGames(L, team_id, g2) : p = g1 \/ OrderLess(L, p, g1)

\* C26: for consecutive Final games G1, G2 of a team in (game_date, id) order,
\* the snapshot at G2 has games_played = games_played(G1) + 1 and
\* wins = wins(G1) + game_won(G1), and the pre-game rating the engine uses at
\* G2 is the elo_rating stored at G1, also when both are on the same date.
C26_ConsecutiveSnapshots ==
    \A t \in Teams : \A g1, g2 \in GameIds(ledger) :
        ConsecutiveGames(ledger, t, g1, g2) =>
            \A r1 \in RowsFor(store, g1, t) :
                /\ RunCompleted =>
                      \A r2 \in RowsFor(store, g2, t) :
                          /\ r2.games_played = r1.games_played + 1
                          /\ r2.wins = r1.wins + r1.game_won
                /\ used.game = g2 =>
                      /\ t = ledger[g2].home_team_id =>
                            (used.home_pre = r1.elo_rating /\ used.away_opp = r1.elo_rating)
                      /\ t = ledger[g2].away_team_id =>
                            (used.away_pre = r1.elo_rating /\ used.home_opp = r1.elo_rating)


\* C27: a processed game is zero-sum in rating: the home side's change is
\* the negative of the away side's, the winner's rating strictly increases,
\* the loser's strictly decreases, and the two ratings after the game sum to
\* the two before it.
C27_ZeroSum ==
    used.game # 0 =>
        LET g == used.game
            before_home == PreGameRating(ledger, store, ledger[g].home_team_id, g)
            before_away == PreGameRating(ledger, store, ledger[g].away_team_id, g)
        IN \A hr \in RowsFor(store, g, ledger[g].home_team_id),
              ar \in RowsFor(store, g, ledger[g].away_team_id) :
               /\ hr.elo_rating - before_home = 0 - (ar.elo_rating - before_away)
               /\ hr.game_won = 1 => (hr.elo_rating > before_home /\ ar.elo_rating < before_away)
               /\ ar.game_won = 1 => (ar.elo_rating > before_away /\ hr.elo_rating < before_home)
               /\ hr.elo_rating + ar.elo_rating = before_home + before_away


\* C28: for every team the schedule-adjusted projected remaining wins lies
\* between 0 and the number of its remaining games, so projected total wins
\* is at most current wins + remaining games and projected total losses,
\* 82 - projected total wins, is not negative.
C28_ProjectionWithinSchedule ==
    \A t \in DOMAIN projections :
        LET p == projections[t]
        IN /\ p.projected_remaining_wins >= 0
           /\ p.projected_remaining_wins <= p.remaining_games * SCALE
           /\ p.projected_total_wins <= (p.current_wins + p.remaining_games) * SCALE
           /\ 82 * SCALE - p.projected_total_wins >= 0


\* C29: a team's current record counts its Final games and only them, each
\* credited as a win to the side the metrics engine records as winner and as
\* a loss to the other: wins + losses is the number of the team's Final
\* games, and over all teams wins equal losses.
C29_CurrentRecord ==
    projections # NoProjections =>
        /\ \A t \in Teams :
              LET final == {g \in GameIds(ledger) : Plays(ledger, g, t) /\ IsFinal(ledger, g)}
                  won == {g \in final : HomeWon(ledger[g]) <=> ledger[g].home_team_id = t}
              IN /\ projections[t].current_wins = Cardinality(won)
                 /\ projections[t].current_losses = Cardinality(final \ won)
                 /\ projections[t].current_wins + projections[t].current_losses
                       = Cardinality(final)
        /\ SumOver([t \in Teams |-> projections[t].current_wins], Teams)
              = SumOver([t \in Teams |-> projections[t].current_losses], Teams)


\* C30: the classifier probability blended into the prediction of game G is
\* the model's output for the feature row built from G itself, also with
\* scheduled games, games outside the season range and Final games without
\* a feature row in the ledger.
C30_ProbabilityPairedWithOwnRow ==
    \A g \in DOMAIN preds :
        lgbRowOf[g] = IF HasFeatures(ledger, predStore, g) THEN Some(g) ELSE NULL


====
